---- MODULE Spec2Model ----
(***************************************************************************)
(* Index inventory of keyhole (mdb/index_stats.go): collection of the      *)
(* indexes of a collection, normalisation (Fields, KeyString,              *)
(* EffectiveKey), the redundancy pass (checkIfDupped), the snapshot codec  *)
(* (OutputBSON / SetClusterDetailsFromFile) and the replay                 *)
(* (CreateIndexes).                                                        *)
(*                                                                         *)
(* Go strings on which the code does byte work (KeyString, EffectiveKey,   *)
(* file names) are sequences of byte values; strings the code only         *)
(* compares for equality (index names, field names) are TLA+ strings with  *)
(* the table StringBytes giving their bytes.                               *)
(***************************************************************************)
EXTENDS Integers, Sequences, FiniteSets, TLC

(***************************************************************************)
(* Bounds of the model.                                                    *)
(***************************************************************************)
\* indexes an operator creates on the collection besides the automatic _id index
MaxIndexes == 3

(***************************************************************************)
(* Go strings.                                                             *)
(***************************************************************************)
\* the bytes of the field names the model uses
StringBytes ==
    ("_id" :> <<95, 105, 100>>) @@ ("a" :> <<97>>) @@ ("b" :> <<98>>) @@ ("c" :> <<99>>)
    @@ ("c1" :> <<99, 49>>) @@ ("c2" :> <<99, 50>>) @@ ("c3" :> <<99, 51>>)
    @@ ("v1" :> <<118, 49>>)
    @@ ("system.js" :> <<115, 121, 115, 116, 101, 109, 46, 106, 115>>)

\* fmt.Sprint of a key direction: 1 -> "1", -1 -> "-1"
Sprint(v) == IF v < 0 THEN <<45, 48 - v>> ELSE <<48 + v>>

\* "{ ", " }", ", ", ": "
OpenBrace == <<123, 32>>
CloseBrace == <<32, 125>>
CommaSpace == <<44, 32>>
ColonSpace == <<58, 32>>
\* ": -1" and ": 1"
ColonMinusOne == <<58, 32, 45, 49>>
ColonOne == <<58, 32, 49>>
\* "system."
SystemDot == <<115, 121, 115, 116, 101, 109, 46>>
\* "-index.bson.gz" and "-stats.bson.gz"
IndexSuffix == <<45, 105, 110, 100, 101, 120, 46, 98, 115, 111, 110, 46, 103, 122>>
StatsSuffix == <<45, 115, 116, 97, 116, 115, 46, 98, 115, 111, 110, 46, 103, 122>>
\* os.Hostname() + "-index.bson.gz" for the host named "h"
HostFilename == <<104>> \o IndexSuffix
\* "{ _id: 1 }"
IdKeyString == <<123, 32, 95, 105, 100, 58, 32, 49, 32, 125>>

\* s begins with prefix
HasPrefix(s, prefix) ==
    /\ Len(s) >= Len(prefix)
    /\ SubSeq(s, 1, Len(prefix)) = prefix

\* strings.HasSuffix
HasSuffix(s, suffix) ==
    /\ Len(s) >= Len(suffix)
    /\ SubSeq(s, Len(s) - Len(suffix) + 1, Len(s)) = suffix

\* strings.Replace(s, old, new, -1): non-overlapping matches, left to right
RECURSIVE Replace(_, _, _)
Replace(s, old, new) ==
    IF Len(s) < Len(old) THEN s
    ELSE IF HasPrefix(s, old)
         THEN new \o Replace(SubSeq(s, Len(old) + 1, Len(s)), old, new)
         ELSE <<Head(s)>> \o Replace(Tail(s), old, new)

\* Go's s < t on strings: bytewise lexicographic order
RECURSIVE StrLess(_, _)
StrLess(s, t) ==
    IF t = <<>> THEN FALSE
    ELSE IF s = <<>> THEN TRUE
    ELSE IF Head(s) # Head(t) THEN Head(s) < Head(t)
    ELSE StrLess(Tail(s), Tail(t))

(***************************************************************************)
(* Key specifications (bson.D): sequences of elements [Key, Value].        *)
(***************************************************************************)
E(k, v) == [Key |-> k, Value |-> v]

\* the key of the automatic index of every collection
IdKey == <<E("_id", 1)>>

\* the key specifications operators create indexes with
KeySpecs ==
    { <<E("a", 1)>>,
      <<E("a", 1), E("b", 1)>>,
      <<E("a", 1), E("b", -1)>>,
      <<E("a", 1), E("c", 1)>>,
      <<E("a", 1), E("b", 1), E("c", 1)>>,
      <<E("a", 1), E("c", 1), E("b", 1)>>,
      <<E("b", 1)>>,
      <<E("b", 1), E("a", 1)>>,
      <<E("_id", 1), E("a", 1)>> }

(***************************************************************************)
(* The data model.                                                         *)
(***************************************************************************)
\* a bson.D field of a struct: nil, or a document (a sequence of elements)
NilD == [isNil |-> TRUE, elems |-> <<>>]
DocD(elems) == [isNil |-> FALSE, elems |-> elems]

\* an option of a raw index definition: absent from the document, or present
Absent(zero) == [set |-> FALSE, val |-> zero]
Present(v) == [set |-> TRUE, val |-> v]

\* a raw index definition as the listIndexes command returns it
RawIndex(name, key, v, background, unique, sparse, ttl, collation, partial) ==
    [name |-> name, key |-> key, v |-> v, background |-> background,
     unique |-> unique, sparse |-> sparse, expireAfterSeconds |-> ttl,
     collation |-> collation, partialFilterExpression |-> partial]

\* a raw index definition with no option set
PlainIndex(name, key) ==
    RawIndex(name, key, 2, Absent(FALSE), Absent(FALSE), Absent(FALSE),
             Absent(0), Absent(<<>>), Absent(<<>>))

\* icur.Decode(&o) into a fresh Index{}: a field absent from the document keeps
\* the zero value of its Go type; the annotation fields are not in the document
DecodeIndex(raw) ==
    [Background |-> raw.background.set /\ raw.background.val,
     Collation |-> IF raw.collation.set THEN DocD(raw.collation.val) ELSE NilD,
     ExpireAfterSeconds |->
         IF raw.expireAfterSeconds.set THEN raw.expireAfterSeconds.val ELSE 0,
     Key |-> raw.key,
     Name |-> raw.name,
     PartialFilterExpression |->
         IF raw.partialFilterExpression.set
         THEN DocD(raw.partialFilterExpression.val) ELSE NilD,
     Sparse |-> raw.sparse.set /\ raw.sparse.val,
     Unique |-> raw.unique.set /\ raw.unique.val,
     Version |-> raw.v,
     EffectiveKey |-> <<>>,
     Fields |-> <<>>,
     IsDupped |-> FALSE,
     IsShardKey |-> FALSE,
     KeyString |-> <<>>,
     TotalOps |-> 0,
     Usage |-> <<>>]

\* what a cursor loop keeps of the documents seq from position n on, when
\* Decode fails on the documents at the positions bad: the loop goes on to the
\* next document
RECURSIVE Without(_, _, _)
Without(seq, bad, n) ==
    IF n > Len(seq) THEN <<>>
    ELSE (IF n \in bad THEN <<>> ELSE <<seq[n]>>) \o Without(seq, bad, n + 1)

\* the elements of a set of numbers in increasing order
RECURSIVE Ascending(_)
Ascending(S) ==
    IF S = {} THEN <<>>
    ELSE LET m == CHOOSE x \in S : \A y \in S : x <= y
         IN <<m>> \o Ascending(S \ {m})

(***************************************************************************)
(* Normalisation of one index (GetIndexesFromCollection, the decode loop). *)
(***************************************************************************)
\* fields = append(fields, value.Key) for every component of the key
FieldsOf(key) == [n \in 1..Len(key) |-> key[n].Key]

\* strbuf after the components n..Len(key) of the key are written
RECURSIVE WriteKey(_, _)
WriteKey(key, n) ==
    IF n > Len(key) THEN <<>>
    ELSE (IF n = 1 THEN OpenBrace ELSE <<>>)
         \o StringBytes[key[n].Key] \o ColonSpace \o Sprint(key[n].Value)
         \o (IF n = Len(key) THEN CloseBrace ELSE CommaSpace)
         \o WriteKey(key, n + 1)

KeyStringOf(key) == WriteKey(key, 1)

\* strings.Replace(o.KeyString[2:len(o.KeyString)-2], ": -1", ": 1", -1)
EffectiveKeyOf(keyString) ==
    Replace(SubSeq(keyString, 3, Len(keyString) - 2), ColonMinusOne, ColonOne)

\* FindOne({_id: ns, key: o.Key}) on config.collections decodes without error
ShardKeyFound(coll, key) ==
    /\ ~coll.lookupFails
    /\ ~coll.shardKey.isNil
    /\ coll.shardKey.elems = key

\* The merge stopping at the first record of the index
MatchUsageFirst(indexStats, name) ==
    LET hits == { n \in 1..Len(indexStats) : indexStats[n].Name = name }
    IN IF hits = {} THEN <<>>
       ELSE <<indexStats[CHOOSE n \in hits : \A m \in hits : n <= m]>>

\* the usage records of the index named name, in the order of indexStats
RECURSIVE MatchUsage(_, _)
MatchUsage(indexStats, name) ==
    IF indexStats = <<>> THEN <<>>
    ELSE (IF Head(indexStats).Name = name THEN <<Head(indexStats)>> ELSE <<>>)
         \o MatchUsage(Tail(indexStats), name)

\* o.TotalOps += result.Accesses.Ops over the matching records
RECURSIVE SumOps(_)
SumOps(usage) ==
    IF usage = <<>> THEN 0 ELSE Head(usage).Accesses.Ops + SumOps(Tail(usage))

\* one iteration of the decode loop: the Index appended to list
Normalize(coll, raw, indexStats) ==
    LET o == DecodeIndex(raw)
        ks == KeyStringOf(o.Key)
        usage == MatchUsage(indexStats, o.Name)
    IN [o EXCEPT !.Fields = FieldsOf(o.Key),
                 !.KeyString = ks,
                 !.IsShardKey = ShardKeyFound(coll, o.Key),
                 !.EffectiveKey = EffectiveKeyOf(ks),
                 !.TotalOps = o.TotalOps + SumOps(usage),
                 !.Usage = usage]

\* list before the sort: one Index per raw definition that decodes, in
\* catalog order
NormalizeAll(coll, indexStats) ==
    LET decoded == Without(coll.indexes, coll.badIndexes, 1)
    IN [n \in 1..Len(decoded) |-> Normalize(coll, decoded[n], indexStats)]

(***************************************************************************)
(* The sort and the redundancy pass.                                       *)
(***************************************************************************)
\* the list rearranged: position i holds the element that was at p[i]
Rearranged(list, p) == [i \in 1..Len(list) |-> list[p[i]]]

\* less(i, j) of the sort.Slice call
Less(x, y) == StrLess(x.EffectiveKey, y.EffectiveKey)

\* the orders of the positions S of list in which no element is less than an
\* element before it
RECURSIVE SortedOrders(_, _)
SortedOrders(list, S) ==
    IF S = {} THEN { <<>> }
    ELSE UNION { { <<m>> \o rest : rest \in SortedOrders(list, S \ {m}) } :
                 m \in { x \in S : \A y \in S : ~Less(list[y], list[x]) } }

\* the list left in the order it had
SortSliceOmitted(list) == { [i \in 1..Len(list) |-> i] }

\* sort.Slice(list, less) leaves the list sorted by less; it is not a stable
\* sort, so elements with equal EffectiveKey may end in any relative order
SortSlice(list) == SortedOrders(list, 1..Len(list))

\* NMatched counting the fields of doc that o holds at the same position
NMatchedInPlace(doc, o) ==
    Cardinality({ i \in 2..Len(doc.Fields) :
                    i <= Len(o.Fields) /\ doc.Fields[i] = o.Fields[i] })

\* nmatched of checkIfDupped: the fields of doc after the first that occur in o
\* at a position after the first
NMatched(doc, o) ==
    Cardinality({ i \in 2..Len(doc.Fields) :
                    \E j \in 2..Len(o.Fields) : doc.Fields[i] = o.Fields[j] })

\* Eligible asking for more fields, not as many
EligibleLonger(doc, o) ==
    /\ o.IsDupped = FALSE
    /\ doc.Fields[1] = o.Fields[1]
    /\ doc.KeyString # o.KeyString
    /\ Len(o.Fields) > Len(doc.Fields)

\* Eligible with the length comparison turned round
EligibleShorter(doc, o) ==
    /\ o.IsDupped = FALSE
    /\ doc.Fields[1] = o.Fields[1]
    /\ doc.KeyString # o.KeyString
    /\ Len(o.Fields) <= Len(doc.Fields)

\* Eligible without the test that o is not yet marked
EligibleMarked(doc, o) ==
    /\ doc.Fields[1] = o.Fields[1]
    /\ doc.KeyString # o.KeyString
    /\ Len(o.Fields) >= Len(doc.Fields)

\* Eligible telling doc from o by name, not by KeyString
EligibleByName(doc, o) ==
    /\ o.IsDupped = FALSE
    /\ doc.Fields[1] = o.Fields[1]
    /\ doc.Name # o.Name
    /\ Len(o.Fields) >= Len(doc.Fields)

\* the condition under which checkIfDupped compares doc with o
Eligible(doc, o) ==
    /\ o.IsDupped = FALSE
    /\ doc.Fields[1] = o.Fields[1]
    /\ doc.KeyString # o.KeyString
    /\ Len(o.Fields) >= Len(doc.Fields)

checkIfDupped(doc, list) ==
    \E n \in 1..Len(list) :
        /\ Eligible(doc, list[n])
        /\ NMatched(doc, list[n]) = Len(doc.Fields) - 1

\* Exempt without the shard-key test
ExemptIdOnly(o) == o.KeyString = IdKeyString

\* the indexes the flagging loop passes over
Exempt(o) == o.KeyString = IdKeyString \/ o.IsShardKey

\* the loop over the sorted list, from position i on
RECURSIVE FlagLoop(_, _)
FlagLoop(list, i) ==
    IF i > Len(list) THEN list
    ELSE IF ~Exempt(list[i])
         THEN FlagLoop([list EXCEPT ![i].IsDupped = checkIfDupped(list[i], list)],
                       i + 1)
         ELSE FlagLoop(list, i + 1)

\* the indexes of a collection whose usage query answered indexStats, with p
\* the order the sort leaves
Analyze(coll, indexStats, p) ==
    FlagLoop(Rearranged(NormalizeAll(coll, indexStats), p), 1)

\* collection.Aggregate($indexStats): the records that decode, or none when
\* the query fails
IndexStatsOf(coll) ==
    IF coll.aggFails THEN <<>> ELSE Without(coll.usage, coll.badUsage, 1)

\* GetIndexesFromCollection returning the error of a failed usage query
GetIndexesFromCollectionUsageFatal(coll) ==
    IF coll.aggFails
    THEN { [list |-> <<>>, err |-> "aggregate"] }
    ELSE IF coll.listFails
    THEN { [list |-> <<>>, err |-> "listIndexes"] }
    ELSE { [list |-> Analyze(coll, IndexStatsOf(coll), p), err |-> "nil"] :
             p \in SortSlice(NormalizeAll(coll, IndexStatsOf(coll))) }

\* what GetIndexesFromCollection can return: (list, err)
GetIndexesFromCollection(coll) ==
    IF coll.listFails
    THEN { [list |-> <<>>, err |-> "listIndexes"] }
    ELSE { [list |-> Analyze(coll, IndexStatsOf(coll), p), err |-> "nil"] :
             p \in SortSlice(NormalizeAll(coll, IndexStatsOf(coll))) }

\* a line written with log.Println or fmt.Println: the place in the code that
\* writes it, the collection it is about and the item its text names
Line(site, db, coll, item) == [site |-> site, db |-> db, coll |-> coll, item |-> item]

\* GetShardsCount: the count of config.shards, 0 when the count fails
GetShardsCount(cl) == IF cl.shardCountFails THEN 0 ELSE cl.shards

\* the lines GetIndexesFromCollection writes when it returns r for the
\* collection coll, named name, of database db: the error of the usage query or
\* of each usage record that does not decode, the error of listIndexes or of
\* each definition that does not decode, then the EffectiveKey of each index
\* the flagging loop finds with fewer usage records than shards
LoggedByCollection(db, name, coll, shardCount, r) ==
    (IF coll.aggFails
     THEN <<Line("aggregate", db, name, <<>>)>>
     ELSE LET bad == Ascending(coll.badUsage \cap (1..Len(coll.usage)))
          IN [n \in 1..Len(bad) |-> Line("usage decode", db, name, <<bad[n]>>)])
    \o (IF coll.listFails
        THEN <<Line("listIndexes", db, name, <<>>)>>
        ELSE LET bad == Ascending(coll.badIndexes \cap (1..Len(coll.indexes)))
                 few == Ascending({ i \in 1..Len(r.list) :
                                      /\ ~Exempt(r.list[i])
                                      /\ Len(r.list[i].Usage) < shardCount })
             IN [n \in 1..Len(bad) |-> Line("index decode", db, name, <<bad[n]>>)]
                \o [n \in 1..Len(few) |->
                       Line("usage below shard count", db, name,
                            r.list[few[n]].EffectiveKey)])

(***************************************************************************)
(* The inventory of a cluster (GetIndexes, GetIndexesFromDB).              *)
(***************************************************************************)
\* a command sent to the cluster
Call(op, db, coll) == [op |-> op, db |-> db, coll |-> coll]

\* the databases GetIndexes passes over
IsAdminDb(name) == name \in {"admin", "config", "local"}

\* the catalog entries GetIndexesFromDB passes over
Skipped(elem) ==
    HasPrefix(StringBytes[elem.name], SystemDot) \/ elem.type # "collection"

\* collectionNames after the cursor loop: the names kept, in cursor order
RECURSIVE CollectionNames(_)
CollectionNames(entries) ==
    IF entries = <<>> THEN <<>>
    ELSE (IF Skipped(Head(entries)) THEN <<>> ELSE <<Head(entries).name>>)
         \o CollectionNames(Tail(entries))

\* name put at its place in a sorted sequence of names
RECURSIVE InsertString(_, _)
InsertString(sorted, name) ==
    IF sorted = <<>> THEN <<name>>
    ELSE IF StrLess(StringBytes[name], StringBytes[Head(sorted)])
         THEN <<name>> \o sorted
         ELSE <<Head(sorted)>> \o InsertString(Tail(sorted), name)

\* sort.Strings(collectionNames); the names of a database are distinct
RECURSIVE SortStrings(_)
SortStrings(names) ==
    IF names = <<>> THEN <<>>
    ELSE InsertString(SortStrings(Tail(names)), Head(names))

\* the loop of GetIndexesFromDB over the sorted names: what it can return,
\* with the commands sent and the lines written
RECURSIVE IndexCollections(_, _, _, _, _, _)
IndexCollections(cl, db, names, collections, sent, log) ==
    IF names = <<>>
    THEN { [collections |-> collections, err |-> "nil", calls |-> sent, log |-> log] }
    ELSE LET v == Head(names)
             now == sent \o <<Call("aggregate", db, v), Call("listIndexes", db, v)>>
         IN UNION {
              LET lines == log \o LoggedByCollection(db, v, cl.db[db].coll[v],
                                                     GetShardsCount(cl), r)
              IN IF r.err # "nil"
                 THEN { [collections |-> collections, err |-> r.err, calls |-> now,
                         log |-> lines] }
                 ELSE IndexCollections(cl, db, Tail(names),
                          Append(collections,
                                 [NS |-> db \o "." \o v, Name |-> v, Indexes |-> r.list]),
                          now, lines)
              : r \in GetIndexesFromCollection(cl.db[db].coll[v]) }

GetIndexesFromDB(cl, db) ==
    IF cl.db[db].listCollectionsFails
    THEN { [collections |-> <<>>, err |-> "listCollections",
            calls |-> <<Call("listCollections", db, "")>>, log |-> <<>>] }
    ELSE IndexCollections(cl, db,
             SortStrings(CollectionNames(
                 Without(cl.db[db].entries, cl.db[db].badEntries, 1))),
             <<>>, <<Call("listCollections", db, "")>>, <<>>)

\* the loop of GetIndexes over dbNames: ix.Databases, the error, the commands,
\* the lines
RECURSIVE IndexDatabases(_, _, _, _, _)
IndexDatabases(cl, names, databases, sent, log) ==
    IF names = <<>>
    THEN { [Databases |-> databases, err |-> "nil", calls |-> sent, log |-> log] }
    ELSE IF IsAdminDb(Head(names))
    THEN IndexDatabases(cl, Tail(names), databases, sent, log)
    ELSE UNION {
           IF r.err # "nil"
           THEN { [Databases |-> databases, err |-> r.err, calls |-> sent \o r.calls,
                   log |-> log \o r.log] }
           ELSE IndexDatabases(cl, Tail(names),
                    Append(databases,
                           [Name |-> Head(names), Collections |-> r.collections]),
                    sent \o r.calls, log \o r.log)
           : r \in GetIndexesFromDB(cl, Head(names)) }

\* what GetIndexes can leave in ix.Databases and return
GetIndexes(cl) ==
    IF cl.listDatabasesFails
    THEN { [Databases |-> <<>>, err |-> "listDatabases",
            calls |-> <<Call("listDatabases", "", "")>>, log |-> <<>>] }
    ELSE IndexDatabases(cl, cl.dbNames, <<>>, <<Call("listDatabases", "", "")>>, <<>>)

(***************************************************************************)
(* The snapshot codec: bson.Marshal / bson.Unmarshal of the structs.       *)
(* A BSON document is a sequence of elements [k, v] with typed values.     *)
(* The dynamic values of the model's bson.D fields are int32 in Key and    *)
(* PartialFilterExpression and strings in Collation.                       *)
(***************************************************************************)
BNull == [t |-> "null"]
BBool(b) == [t |-> "bool", b |-> b]
BInt32(i) == [t |-> "int32", i |-> i]
BInt64(i) == [t |-> "int64", i |-> i]
BString(str) == [t |-> "string", s |-> str]
BDateTime(ms) == [t |-> "datetime", ms |-> ms]
BDocument(elems) == [t |-> "document", d |-> elems]
BArray(items) == [t |-> "array", a |-> items]
Elem(k, v) == [k |-> k, v |-> v]

\* the largest int32
MaxInt32 == 2147483647

\* a Go int: int32 when it fits in 32 bits, int64 otherwise
EncodeInt(i) ==
    IF i <= MaxInt32 /\ i >= -MaxInt32 - 1 THEN BInt32(i) ELSE BInt64(i)

\* a bson.D whose values are int32 (Key, PartialFilterExpression) or strings
\* (Collation) as a document, element by element
EncodeInts(elems) ==
    BDocument([n \in 1..Len(elems) |-> Elem(elems[n].Key, BInt32(elems[n].Value))])

EncodeStrings(elems) ==
    BDocument([n \in 1..Len(elems) |-> Elem(elems[n].Key, BString(elems[n].Value))])

\* a bson.D field of a struct: a nil slice is written as null, any other as
\* the document doc
NullOr(d, doc) == IF d.isNil THEN BNull ELSE doc

\* IndexUsage and Accesses: keys from the bson tags, or the field name in
\* lower case where the struct gives no bson tag
MarshalUsage(u) ==
    BDocument(<<Elem("accesses", BDocument(<<Elem("ops", EncodeInt(u.Accesses.Ops)),
                                             Elem("since", BDateTime(u.Accesses.Since))>>)),
                Elem("host", BString(u.Host)),
                Elem("name", BString(u.Name)),
                Elem("shard", BString(u.Shard))>>)

\* Index: every field is written, none of the tags says omitempty
MarshalIndex(o) ==
    BDocument(<<Elem("background", BBool(o.Background)),
                Elem("collation", NullOr(o.Collation, EncodeStrings(o.Collation.elems))),
                Elem("expireAfterSeconds", BInt32(o.ExpireAfterSeconds)),
                Elem("key", EncodeInts(o.Key)),
                Elem("name", BString(o.Name)),
                Elem("partialFilterExpression",
                     NullOr(o.PartialFilterExpression,
                            EncodeInts(o.PartialFilterExpression.elems))),
                Elem("sparse", BBool(o.Sparse)),
                Elem("unique", BBool(o.Unique)),
                Elem("v", BInt32(o.Version)),
                Elem("effectiveKey", BString(o.EffectiveKey)),
                Elem("fields", BArray([n \in 1..Len(o.Fields) |-> BString(o.Fields[n])])),
                Elem("isDupped", BBool(o.IsDupped)),
                Elem("isShardkey", BBool(o.IsShardKey)),
                Elem("keyString", BString(o.KeyString)),
                Elem("totalOps", EncodeInt(o.TotalOps)),
                Elem("usage", BArray([n \in 1..Len(o.Usage) |-> MarshalUsage(o.Usage[n])]))>>)

\* Collection{NS, Name, Indexes} and Database{Name, Collections}
MarshalCollection(c) ==
    BDocument(<<Elem("ns", BString(c.NS)),
                Elem("name", BString(c.Name)),
                Elem("indexes",
                     BArray([n \in 1..Len(c.Indexes) |-> MarshalIndex(c.Indexes[n])]))>>)

MarshalDatabase(db) ==
    BDocument(<<Elem("name", BString(db.Name)),
                Elem("collections",
                     BArray([n \in 1..Len(db.Collections) |->
                                MarshalCollection(db.Collections[n])]))>>)

\* bson.Marshal(ix): the exported fields Databases and Logger
MarshalIndexStats(x) ==
    <<Elem("databases",
           BArray([n \in 1..Len(x.Databases) |-> MarshalDatabase(x.Databases[n])])),
      Elem("keyhole", BDocument(<<>>))>>

\* the positions of the elements of doc with key k
Find(doc, k) == { n \in 1..Len(doc) : doc[n].k = k }

\* the value of key k in doc, or null when doc has no such element: the
\* struct field then keeps its zero value, as it does for a null
Lookup(doc, k) ==
    IF Find(doc, k) = {} THEN BNull ELSE doc[CHOOSE n \in Find(doc, k) : TRUE].v

DecodeBool(v) == IF v.t = "bool" THEN v.b ELSE FALSE
DecodeInt(v) == IF v.t \in {"int32", "int64"} THEN v.i ELSE 0
DecodeString(v, zero) == IF v.t = "string" THEN v.s ELSE zero
DecodeTime(v) == IF v.t = "datetime" THEN v.ms ELSE 0

\* a bson.D field: null gives the nil slice, a document a slice that is not
\* nil, with the values of the types the document gives them
DecodeInts(v) ==
    IF v.t = "document"
    THEN DocD([n \in 1..Len(v.d) |-> E(v.d[n].k, DecodeInt(v.d[n].v))])
    ELSE NilD

DecodeStrings(v) ==
    IF v.t = "document"
    THEN DocD([n \in 1..Len(v.d) |-> E(v.d[n].k, DecodeString(v.d[n].v, ""))])
    ELSE NilD

\* the elements of a slice field: those of the array; null gives the nil
\* slice, which has none
Items(v) == IF v.t = "array" THEN v.a ELSE <<>>

DecodeName(v) == DecodeString(v, "")
DecodeBytes(v) == DecodeString(v, <<>>)

UnmarshalUsage(v) ==
    [Accesses |-> [Ops |-> DecodeInt(Lookup(Lookup(v.d, "accesses").d, "ops")),
                   Since |-> DecodeTime(Lookup(Lookup(v.d, "accesses").d, "since"))],
     Host |-> DecodeName(Lookup(v.d, "host")),
     Name |-> DecodeName(Lookup(v.d, "name")),
     Shard |-> DecodeName(Lookup(v.d, "shard"))]

UnmarshalIndex(v) ==
    [Background |-> DecodeBool(Lookup(v.d, "background")),
     Collation |-> DecodeStrings(Lookup(v.d, "collation")),
     ExpireAfterSeconds |-> DecodeInt(Lookup(v.d, "expireAfterSeconds")),
     Key |-> DecodeInts(Lookup(v.d, "key")).elems,
     Name |-> DecodeName(Lookup(v.d, "name")),
     PartialFilterExpression |->
         DecodeInts(Lookup(v.d, "partialFilterExpression")),
     Sparse |-> DecodeBool(Lookup(v.d, "sparse")),
     Unique |-> DecodeBool(Lookup(v.d, "unique")),
     Version |-> DecodeInt(Lookup(v.d, "v")),
     EffectiveKey |-> DecodeBytes(Lookup(v.d, "effectiveKey")),
     Fields |-> [n \in 1..Len(Items(Lookup(v.d, "fields"))) |->
                    DecodeName(Items(Lookup(v.d, "fields"))[n])],
     IsDupped |-> DecodeBool(Lookup(v.d, "isDupped")),
     IsShardKey |-> DecodeBool(Lookup(v.d, "isShardkey")),
     KeyString |-> DecodeBytes(Lookup(v.d, "keyString")),
     TotalOps |-> DecodeInt(Lookup(v.d, "totalOps")),
     Usage |-> [n \in 1..Len(Items(Lookup(v.d, "usage"))) |->
                   UnmarshalUsage(Items(Lookup(v.d, "usage"))[n])]]

UnmarshalCollection(v) ==
    [NS |-> DecodeName(Lookup(v.d, "ns")),
     Name |-> DecodeName(Lookup(v.d, "name")),
     Indexes |-> [n \in 1..Len(Items(Lookup(v.d, "indexes"))) |->
                     UnmarshalIndex(Items(Lookup(v.d, "indexes"))[n])]]

UnmarshalDatabase(v) ==
    [Name |-> DecodeName(Lookup(v.d, "name")),
     Collections |-> [n \in 1..Len(Items(Lookup(v.d, "collections"))) |->
                         UnmarshalCollection(Items(Lookup(v.d, "collections"))[n])]]

\* bson.Unmarshal(data, &ix): Databases is set from the document, the
\* unexported fields of the receiver are kept
UnmarshalIndexStats(x, doc) ==
    [x EXCEPT !.Databases = [n \in 1..Len(Items(Lookup(doc, "databases"))) |->
                                UnmarshalDatabase(Items(Lookup(doc, "databases"))[n])]]

\* "./out/"
OutDir == <<46, 47, 111, 117, 116, 47>>

\* OutputBSON: the file system after the write (gox.OutputGzipped succeeding);
\* the pass through bson.D between the two Marshal calls keeps every element,
\* its order and its type
OutputBSON(x, fs) == [fs EXCEPT ![OutDir \o x.filename] = MarshalIndexStats(x)]

\* filepath.Base: what follows the last "/" of a name that does not end in one
Base(name) ==
    LET slashes == { n \in 1..Len(name) : name[n] = 47 }
    IN IF slashes = {} THEN name
       ELSE SubSeq(name, (CHOOSE n \in slashes : \A m \in slashes : m <= n) + 1, Len(name))

\* "bson.gz", "json"
BsonGz == <<98, 115, 111, 110, 46, 103, 122>>
Json == <<106, 115, 111, 110>>

\* ofile of OutputJSON
JsonPath(filename) == OutDir \o Replace(Base(filename), BsonGz, Json)

\* OutputJSON: the file system after ioutil.WriteFile, which writes the file
\* or fails; the extended JSON text is modelled by the document it renders
OutputJSON(x, fs, writeFails) ==
    IF writeFails THEN fs
    ELSE [fs EXCEPT ![JsonPath(x.filename)] = MarshalIndexStats(x)]

\* s holds sub somewhere
Contains(s, sub) ==
    \E n \in 1..(Len(s) - Len(sub) + 1) : SubSeq(s, n, n + Len(sub) - 1) = sub

\* Supported looking for the suffixes anywhere in the name
SupportedAnywhere(filename) ==
    Contains(filename, IndexSuffix) \/ Contains(filename, StatsSuffix)

\* the file names SetClusterDetailsFromFile reads
Supported(filename) ==
    ~(HasSuffix(filename, IndexSuffix) = FALSE /\ HasSuffix(filename, StatsSuffix) = FALSE)

\* SetClusterDetailsFromFile: the receiver after the call, the error and the
\* files opened; fs[filename] is <<>> for a file that does not exist
SetClusterDetailsFromFile(x, fs, filename) ==
    IF ~Supported(filename)
    THEN [ix |-> x, err |-> "unsupported file type", calls |-> <<>>]
    ELSE IF filename \notin DOMAIN fs \/ fs[filename] = <<>>
    THEN [ix |-> x, err |-> "open", calls |-> <<[op |-> "open", path |-> filename]>>]
    ELSE [ix |-> UnmarshalIndexStats(x, fs[filename]), err |-> "nil",
          calls |-> <<[op |-> "open", path |-> filename]>>]

(***************************************************************************)
(* The replay (CreateIndexes).                                             *)
(***************************************************************************)
\* the first element of key named field, if any
FirstNamed(key, field) ==
    LET at == { m \in 1..Len(key) : key[m].Key = field }
    IN IF at = {} THEN <<>>
       ELSE <<key[CHOOSE m \in at : \A x \in at : m <= x]>>

\* indexKey: for every field of o.Fields the first element of o.Key with its name
RECURSIVE CrossReference(_, _)
CrossReference(fields, key) ==
    IF fields = <<>> THEN <<>>
    ELSE FirstNamed(key, Head(fields)) \o CrossReference(Tail(fields), key)

IndexKey(o) == CrossReference(o.Fields, o.Key)

\* the key with the directions of the EffectiveKey
AscendingKey(o) == [n \in 1..Len(o.Key) |-> E(o.Key[n].Key, 1)]

\* Keys of the mongo.IndexModel passed to CreateOne
ModelKeys(o) == o.Key

\* the fields of options.Collation
CollationFields ==
    {"locale", "caseLevel", "caseFirst", "strength", "numericOrdering",
     "alternate", "maxVariable", "normalization", "backwards"}

\* bson.Marshal(o.Collation) decoded into *options.Collation: the elements the
\* struct has a field for
RECURSIVE ToCollation(_)
ToCollation(elems) ==
    IF elems = <<>> THEN <<>>
    ELSE (IF Head(elems).Key \in CollationFields THEN <<Head(elems)>> ELSE <<>>)
         \o ToCollation(Tail(elems))

\* opt after the Set calls
IndexOptionsOf(o) ==
    [version |-> Present(o.Version),
     name |-> Present(o.Name),
     background |-> IF o.Background = TRUE THEN Present(o.Background) ELSE Absent(FALSE),
     expireAfterSeconds |->
         IF o.ExpireAfterSeconds > 0 THEN Present(o.ExpireAfterSeconds) ELSE Absent(0),
     unique |-> IF o.Unique = TRUE THEN Present(o.Unique) ELSE Absent(FALSE),
     sparse |-> IF o.Sparse = TRUE THEN Present(o.Sparse) ELSE Absent(FALSE),
     collation |->
         IF ~o.Collation.isNil THEN Present(ToCollation(o.Collation.elems))
         ELSE Absent(<<>>),
     partialFilterExpression |->
         IF ~o.PartialFilterExpression.isNil
         THEN Present(o.PartialFilterExpression.elems) ELSE Absent(<<>>)]

\* an index of the target cluster, as the target tells indexes apart
IndexId(db, coll, name) == [db |-> db, coll |-> coll, name |-> name]

\* collection.Indexes().CreateOne for index o; the target refuses the indexes
\* in rejected
CreateOne(db, coll, o, rejected) ==
    [op |-> "createIndex", db |-> db, coll |-> coll,
     keys |-> ModelKeys(o), opts |-> IndexOptionsOf(o),
     failed |-> IndexId(db, coll, o.Name) \in rejected]

\* the loop over coll.Indexes
RECURSIVE CreateEach(_, _, _, _)
CreateEach(db, coll, indexes, rejected) ==
    IF indexes = <<>> THEN <<>>
    ELSE <<CreateOne(db, coll, Head(indexes), rejected)>>
         \o CreateEach(db, coll, Tail(indexes), rejected)

\* the loop over db.Collections
RECURSIVE CreateInCollections(_, _, _)
CreateInCollections(db, collections, rejected) ==
    IF collections = <<>> THEN <<>>
    ELSE CreateEach(db, Head(collections).Name, Head(collections).Indexes, rejected)
         \o CreateInCollections(db, Tail(collections), rejected)

\* the loop over ix.Databases: every request sent
RECURSIVE CreateInDatabases(_, _)
CreateInDatabases(databases, rejected) ==
    IF databases = <<>> THEN <<>>
    ELSE CreateInCollections(Head(databases).Name, Head(databases).Collections, rejected)
         \o CreateInDatabases(Tail(databases), rejected)

\* the requests up to the first one that fails
RECURSIVE UntilFailure(_)
UntilFailure(requests) ==
    IF requests = <<>> THEN <<>>
    ELSE IF Head(requests).failed THEN <<Head(requests)>>
    ELSE <<Head(requests)>> \o UntilFailure(Tail(requests))

\* err that keeps the failure of any CreateOne
LastErrorAny(requests) ==
    IF \E n \in 1..Len(requests) : requests[n].failed THEN "createIndex" ELSE "nil"

\* err as CreateIndexes returns it: the one of the last CreateOne
LastError(requests) ==
    IF requests # <<>> /\ requests[Len(requests)].failed THEN "createIndex" ELSE "nil"

\* fmt.Println(err) after each CreateOne that fails, from request n on
RECURSIVE PrintedErrors(_, _)
PrintedErrors(requests, n) ==
    IF n > Len(requests) THEN <<>>
    ELSE (IF requests[n].failed
          THEN <<Line("createIndex", requests[n].db, requests[n].coll, <<n>>)>>
          ELSE <<>>)
         \o PrintedErrors(requests, n + 1)

\* CreateIndexes returning at the first failure
CreateIndexesAborting(databases, rejected) ==
    LET requests == UntilFailure(CreateInDatabases(databases, rejected))
    IN [calls |-> requests, err |-> LastError(requests)]

\* CreateIndexes: the requests sent and the error returned
CreateIndexes(databases, rejected) ==
    LET requests == CreateInDatabases(databases, rejected)
    IN [calls |-> requests, err |-> LastError(requests)]

(***************************************************************************)
(* One collection of a live cluster and a run of the analysis on it.       *)
(***************************************************************************)
VARIABLES
    collection,   \* the live collection: catalog, usage, shard-key registry
    list,         \* the list GetIndexesFromCollection returned
    ret,          \* "none" before the call, then the error it returned
    cluster,      \* the live cluster GetIndexes reads
    ix,           \* the IndexStats receiver: Databases, filename
    err,          \* "none", then the error the last method of ix returned
    calls,        \* the requests the last method of ix sent: commands, file opens
    method,       \* the last method called: its name and its argument
    files,        \* the file system: the document each file holds, <<>> for none
    target,       \* the indexes the cluster CreateIndexes writes to refuses
    origin,       \* where ix.Databases comes from: "new", "collected", "loaded"
    diskFull,     \* TRUE when the file system refuses to write a file
    logged        \* the lines the last method wrote to the log and the terminal

collVars == <<collection, list, ret>>
ixVars == <<cluster, ix, err, calls, method, files, target, origin, diskFull>>
vars == <<collVars, ixVars, logged>>

\* the names given to the indexes operators create, in creation order
NamePool == <<"i1", "i2", "i3", "i4", "i5", "i6">>

\* a new collection holds the automatic _id index
NewCollection ==
    [indexes |-> <<PlainIndex("_id_", IdKey)>>,
     usage |-> <<>>,
     shardKey |-> NilD,
     listFails |-> FALSE,
     aggFails |-> FALSE,
     lookupFails |-> FALSE,
     badIndexes |-> {},
     badUsage |-> {}]

\* NewIndexStats: no database, the file name made of the host name
NewIndexStats == [Databases |-> <<>>, filename |-> HostFilename]

\* a method call
Method(name, arg) == [name |-> name, arg |-> arg]

\* "./out/" + ix.filename, the file OutputBSON writes
SnapshotPath == OutDir \o HostFilename

\* the file system before the first OutputBSON
NoFiles == [path \in {SnapshotPath, JsonPath(HostFilename)} |-> <<>>]

\* a process that has made its receiver and called no method of it yet
Fresh ==
    /\ ix = NewIndexStats
    /\ err = "none"
    /\ calls = <<>>
    /\ method = Method("NewIndexStats", <<>>)
    /\ origin = "new"
    /\ logged = <<>>

\* a cluster with no database
EmptyCluster ==
    [listDatabasesFails |-> FALSE, shardCountFails |-> FALSE, shards |-> 1,
     dbNames |-> <<>>]

IxIdle ==
    /\ cluster = EmptyCluster
    /\ Fresh
    /\ files = NoFiles
    /\ target = {}
    /\ diskFull = FALSE

Init ==
    /\ collection = NewCollection
    /\ list = <<>>
    /\ ret = "none"
    /\ IxIdle

\* an operator creates an index on the live collection
CreateIndex(key) ==
    /\ ret = "none"
    /\ Len(collection.indexes) - 1 < MaxIndexes
    /\ Len(collection.indexes) <= Len(NamePool)
    /\ collection' = [collection EXCEPT !.indexes =
           Append(@, PlainIndex(NamePool[Len(collection.indexes)], key))]
    /\ UNCHANGED <<list, ret, ixVars, logged>>

\* an operator shards the collection on the key of one of its indexes
ShardCollection(n) ==
    /\ ret = "none"
    /\ collection.shardKey.isNil
    /\ collection' = [collection EXCEPT !.shardKey = DocD(collection.indexes[n].key)]
    /\ UNCHANGED <<list, ret, ixVars, logged>>

\* the analysis of the collection
RunGetIndexesFromCollection ==
    /\ ret = "none"
    /\ \E r \in GetIndexesFromCollection(collection) :
           /\ list' = r.list
           /\ ret' = r.err
           /\ logged' = LoggedByCollection("", "", collection, GetShardsCount(cluster), r)
    /\ UNCHANGED <<collection, ixVars>>

Next ==
    \/ \E key \in KeySpecs : CreateIndex(key)
    \/ \E n \in 1..Len(collection.indexes) : ShardCollection(n)
    \/ RunGetIndexesFromCollection

Spec == Init /\ [][Next]_vars

(***************************************************************************)
(* Properties of the analysis of one collection.                           *)
(***************************************************************************)
\* the analysis has returned a list
Returned == ret = "nil"

Positions == 1..Len(list)

\* O can serve every query D can: same leading field, at least as many fields,
\* every trailing field of D among the trailing fields of O
Covers(O, D) ==
    /\ O.Fields[1] = D.Fields[1]
    /\ Len(O.Fields) >= Len(D.Fields)
    /\ \A i \in 2..Len(D.Fields) : \E j \in 2..Len(O.Fields) : O.Fields[j] = D.Fields[i]

IsIdIndex(o) == o.KeyString = IdKeyString

\* C1: in the returned list the _id index and every shard-key index are
\* unflagged, whatever other indexes the collection holds.
C1_ExemptNeverDupped ==
    Returned =>
        \A i \in Positions :
            (IsIdIndex(list[i]) \/ list[i].IsShardKey) => list[i].IsDupped = FALSE

\* a shard-key index other than the _id index, and the _id index, each covered
\* by an unflagged index with another KeyString, were returned
C1_Witness ==
    /\ Returned
    /\ \E i, j, k, l \in Positions :
           /\ list[i].IsShardKey /\ ~IsIdIndex(list[i])
           /\ j # i /\ Covers(list[j], list[i]) /\ ~list[j].IsDupped
           /\ list[j].KeyString # list[i].KeyString
           /\ IsIdIndex(list[k])
           /\ l # k /\ Covers(list[l], list[k]) /\ ~list[l].IsDupped
           /\ list[l].KeyString # list[k].KeyString

\* A and B are a pair of the kind C2 speaks of: B has A's leading field, more
\* fields, and A's trailing fields among its own
ShorterLonger(A, B) ==
    /\ ~IsIdIndex(A) /\ ~A.IsShardKey
    /\ ~IsIdIndex(B) /\ ~B.IsShardKey
    /\ Len(B.Fields) > Len(A.Fields)
    /\ Covers(B, A)

\* C2: redundancy is one-directional. A flagged index always has another index
\* with at least as many fields covering it (none is flagged on account of a
\* shorter one), and a shorter/longer pair that is alone with its leading field
\* ends with the shorter flagged and the longer unflagged.
C2_OneDirectional ==
    Returned =>
        /\ \A i \in Positions :
               list[i].IsDupped =>
                   \E j \in Positions \ {i} :
                       /\ Covers(list[j], list[i])
                       /\ list[j].KeyString # list[i].KeyString
        /\ \A i, j \in Positions :
               ( /\ ShorterLonger(list[i], list[j])
                 /\ \A k \in Positions \ {i, j} : list[k].Fields[1] # list[i].Fields[1] )
               => (list[i].IsDupped /\ ~list[j].IsDupped)

\* {a:1,b:1} and {a:1,b:1,c:1} alone with the leading field a were analysed
C2_Witness ==
    /\ Returned
    /\ \E i, j \in Positions :
           /\ list[i].Fields = <<"a", "b">>
           /\ list[j].Fields = <<"a", "b", "c">>
           /\ ShorterLonger(list[i], list[j])
           /\ \A k \in Positions \ {i, j} : list[k].Fields[1] # "a"
           /\ list[i].IsDupped

\* C3: every flagged index is covered by another index of the collection that
\* ends unflagged, so every group of indexes with one leading field keeps an
\* unflagged index.
C3_SurvivorCovers ==
    Returned =>
        /\ \A i \in Positions :
               list[i].IsDupped =>
                   \E j \in Positions \ {i} :
                       ~list[j].IsDupped /\ Covers(list[j], list[i])
        /\ \A i \in Positions :
               \E j \in Positions :
                   list[j].Fields[1] = list[i].Fields[1] /\ ~list[j].IsDupped

\* three indexes that cover each other pairwise (a chain of mutually compatible
\* indexes) were analysed and two of them are flagged
C3_Witness ==
    /\ Returned
    /\ \E i, j, k \in Positions :
           /\ i # j /\ j # k /\ i # k
           /\ \A x, y \in {i, j, k} : Covers(list[x], list[y])
           /\ \A x \in {i, j, k} : ~IsIdIndex(list[x]) /\ ~list[x].IsShardKey
           /\ list[i].KeyString # list[j].KeyString
           /\ list[i].IsDupped /\ list[j].IsDupped /\ ~list[k].IsDupped

\* two distinct indexes with one KeyString, neither of them exempt
SameKeyPair(i, j) ==
    /\ i # j
    /\ list[i].KeyString = list[j].KeyString
    /\ ~IsIdIndex(list[i]) /\ ~list[i].IsShardKey

\* C4 as stated: of two distinct indexes with equal KeyString (neither the _id
\* index nor a shard key) at least one ends flagged.
C4_SameKeyPairFlagged ==
    Returned =>
        \A i, j \in Positions :
            SameKeyPair(i, j) => (list[i].IsDupped \/ list[j].IsDupped)

\* C4 amended: two indexes with equal KeyString are never flagged on account of
\* each other: one of them is flagged only if a third index with a different
\* KeyString covers it.
C4_SameKeyNeedsThird ==
    Returned =>
        \A i, j \in Positions :
            (SameKeyPair(i, j) /\ list[i].IsDupped) =>
                \E k \in Positions \ {i, j} :
                    /\ list[k].KeyString # list[i].KeyString
                    /\ Covers(list[k], list[i])

\* two indexes with equal KeyString were analysed and both are unflagged
C4_Witness ==
    /\ Returned
    /\ \E i, j \in Positions :
           SameKeyPair(i, j) /\ ~list[i].IsDupped /\ ~list[j].IsDupped

\* the normalised indexes of the collection in catalog order
Catalog == NormalizeAll(collection, IndexStatsOf(collection))

\* C5: the returned list is non-decreasing by EffectiveKey, and it holds the
\* indexes of the catalog, one position each, with nothing but flags changed by
\* the flagging pass that follows the sort.
C5_SortedByEffectiveKey ==
    Returned =>
        /\ \A i \in 1..(Len(list) - 1) :
               ~StrLess(list[i + 1].EffectiveKey, list[i].EffectiveKey)
        /\ Len(list) = Len(collection.indexes)
        /\ \A n \in 1..Len(collection.indexes) :
               \E i \in Positions :
                   /\ list[i].Name = collection.indexes[n].name
                   /\ [list[i] EXCEPT !.IsDupped = FALSE] = Catalog[n]

\* a catalog that was not in EffectiveKey order was analysed and an index flagged
C5_Witness ==
    /\ Returned
    /\ \E i \in 1..(Len(Catalog) - 1) :
           StrLess(Catalog[i + 1].EffectiveKey, Catalog[i].EffectiveKey)
    /\ \E i \in Positions : list[i].IsDupped

(***************************************************************************)
(* A cluster of several databases and a run of GetIndexes on it.           *)
(***************************************************************************)
\* a usage record of the $indexStats aggregation
IndexUsage(name, ops, shard) ==
    [Accesses |-> [Ops |-> ops, Since |-> 0], Host |-> shard, Name |-> name,
     Shard |-> shard]

\* the live collections of the clusters: c2 holds two indexes with one
\* EffectiveKey, every collection has usage records from two shards
SampleCollection(name) ==
    [indexes |->
         IF name = "c2"
         THEN <<PlainIndex("_id_", IdKey),
                PlainIndex("a_1_b_-1", <<E("a", 1), E("b", -1)>>),
                PlainIndex("a_1_b_1", <<E("a", 1), E("b", 1)>>)>>
         ELSE <<PlainIndex("_id_", IdKey),
                PlainIndex("a_1_b_1", <<E("a", 1), E("b", 1)>>),
                PlainIndex("a_1", <<E("a", 1)>>)>>,
     usage |-> <<IndexUsage("a_1_b_1", 3, "s1"), IndexUsage("_id_", 5, "s1"),
                 IndexUsage("a_1_b_1", 4, "s2")>>,
     shardKey |-> NilD,
     listFails |-> FALSE,
     aggFails |-> FALSE,
     lookupFails |-> FALSE,
     badIndexes |-> {},
     badUsage |-> {}]

Entry(name, type) == [name |-> name, type |-> type]

\* the orders in which ListDatabases can name the databases
DbLists ==
    { <<>>, <<"local">>, <<"admin", "d1">>, <<"d2", "config", "d1">> }

\* the catalogs of a database, in cursor order
EntryLists ==
    { <<>>,
      <<Entry("v1", "view"), Entry("c1", "collection")>>,
      <<Entry("c2", "collection"), Entry("system.js", "collection"),
        Entry("c1", "collection")>> }

\* the names of the entries
EntryNames(entries) == { entries[n].name : n \in 1..Len(entries) }

\* the databases of dbNames that hold user data
UserDbs(dbNames) == { dbNames[n] : n \in 1..Len(dbNames) } \ {"admin", "config", "local"}

\* a database with the catalog entries
DbEnv(entries) ==
    [listCollectionsFails |-> FALSE,
     badEntries |-> {},
     entries |-> entries,
     coll |-> [name \in EntryNames(entries) |-> SampleCollection(name)]]

Clusters ==
    { [listDatabasesFails |-> FALSE, shardCountFails |-> FALSE, shards |-> 2,
       dbNames |-> names,
       db |-> [d \in UserDbs(names) |-> DbEnv(catalog[d])]] :
        names \in DbLists, catalog \in [{"d1", "d2"} -> EntryLists] }

InitCollect ==
    /\ cluster \in Clusters
    /\ Fresh
    /\ files = NoFiles
    /\ target = {}
    /\ diskFull = FALSE
    /\ collection = NewCollection
    /\ list = <<>>
    /\ ret = "none"

\* the catalog entries of database d
EntrySet(d) == { cluster.db[d].entries[n] : n \in 1..Len(cluster.db[d].entries) }

\* the collections of database d that GetIndexes inventories
Inventoried(d) == { e.name : e \in { x \in EntrySet(d) : ~Skipped(x) } }

\* the cluster becomes unable to answer ListDatabases
FailListDatabases ==
    /\ method.name = "NewIndexStats"
    /\ ~cluster.listDatabasesFails
    /\ cluster' = [cluster EXCEPT !.listDatabasesFails = TRUE]
    /\ UNCHANGED <<ix, err, calls, method, files, target, origin, diskFull, logged,
                   collVars>>

\* database d becomes unable to answer ListCollections
FailListCollections(d) ==
    /\ method.name = "NewIndexStats"
    /\ ~cluster.db[d].listCollectionsFails
    /\ cluster' = [cluster EXCEPT !.db[d].listCollectionsFails = TRUE]
    /\ UNCHANGED <<ix, err, calls, method, files, target, origin, diskFull, logged,
                   collVars>>

\* collection c of database d becomes unable to answer listIndexes
FailListIndexes(d, c) ==
    /\ method.name = "NewIndexStats"
    /\ ~cluster.db[d].coll[c].listFails
    /\ cluster' = [cluster EXCEPT !.db[d].coll[c].listFails = TRUE]
    /\ UNCHANGED <<ix, err, calls, method, files, target, origin, diskFull, logged,
                   collVars>>

\* collection c of database d becomes unable to answer $indexStats
FailAggregate(d, c) ==
    /\ method.name = "NewIndexStats"
    /\ ~cluster.db[d].coll[c].aggFails
    /\ cluster' = [cluster EXCEPT !.db[d].coll[c].aggFails = TRUE]
    /\ UNCHANGED <<ix, err, calls, method, files, target, origin, diskFull, logged,
                   collVars>>

\* ix.GetIndexes(client), called on a receiver just made
RunGetIndexes ==
    /\ method.name = "NewIndexStats"
    /\ \E r \in GetIndexes(cluster) :
           /\ ix' = [ix EXCEPT !.Databases = r.Databases]
           /\ err' = r.err
           /\ calls' = r.calls
           /\ logged' = r.log
    /\ method' = Method("GetIndexes", <<>>)
    /\ origin' = "collected"
    /\ UNCHANGED <<cluster, files, target, diskFull, collVars>>

NextCollect ==
    \/ FailListDatabases
    \/ \E d \in UserDbs(cluster.dbNames) : FailListCollections(d)
    \/ \E d \in UserDbs(cluster.dbNames) : \E c \in Inventoried(d) : FailListIndexes(d, c)
    \/ \E d \in UserDbs(cluster.dbNames) : \E c \in Inventoried(d) : FailAggregate(d, c)
    \/ RunGetIndexes

SpecCollect == InitCollect /\ [][NextCollect]_vars

(***************************************************************************)
(* Properties of GetIndexes.                                               *)
(***************************************************************************)
\* GetIndexes has returned
Collected == err # "none"

\* the command c was sent and failed, being one whose failure GetIndexes returns
FatalCall(c) ==
    \/ c.op = "listDatabases" /\ cluster.listDatabasesFails
    \/ c.op = "listCollections" /\ cluster.db[c.db].listCollectionsFails
    \/ c.op = "listIndexes" /\ cluster.db[c.db].coll[c.coll].listFails

\* database enumeration, the collection enumeration of a user database, or the
\* index listing of one of its regular collections fails
SomeListingFails ==
    \/ cluster.listDatabasesFails
    \/ \E d \in UserDbs(cluster.dbNames) :
           \/ cluster.db[d].listCollectionsFails
           \/ \E c \in Inventoried(d) : cluster.db[d].coll[c].listFails

MaxOptIndexes == 2

\* the options an operator gives an index: every flag and a TTL; a collation
\* and an empty partial filter next to flags given as false and a TTL of 0;
\* a partial filter, the background flag given as false and a TTL of 0; none
OptionVariants == 1..4

\* the key of the index an operator creates with the options
OptionKey(variant) ==
    CASE variant = 1 -> <<E("a", 1)>>
      [] variant = 2 -> <<E("a", -1), E("b", 1)>>
      [] variant = 3 -> <<E("b", 1)>>
      [] OTHER -> <<E("c", -1)>>

OptionIndex(name, key, variant) ==
    CASE variant = 1 ->
           RawIndex(name, key, 2, Present(TRUE), Present(TRUE), Present(TRUE),
                    Present(3600), Absent(<<>>), Absent(<<>>))
      [] variant = 2 ->
           RawIndex(name, key, 2, Absent(FALSE), Present(FALSE), Present(FALSE),
                    Absent(0), Present(<<E("locale", "en"), E("version", "57.1")>>),
                    Present(<<>>))
      [] variant = 3 ->
           RawIndex(name, key, 1, Present(FALSE), Absent(FALSE), Absent(FALSE),
                    Present(0), Absent(<<>>), Present(<<E("x", 5)>>))
      [] OTHER -> PlainIndex(name, key)

\* d1 holds c1, to which the operators add indexes; d2 holds the sample
\* collection c1, sharded on the key of one of its indexes
SnapshotCluster ==
    [listDatabasesFails |-> FALSE,
     shardCountFails |-> FALSE,
     shards |-> 2,
     dbNames |-> <<"d1", "admin", "d2">>,
     db |-> [d \in {"d1", "d2"} |->
               IF d = "d1"
               THEN [listCollectionsFails |-> FALSE,
                     badEntries |-> {},
                     entries |-> <<Entry("c1", "collection")>>,
                     coll |-> [name \in {"c1"} |-> NewCollection]]
               ELSE [listCollectionsFails |-> FALSE,
                     badEntries |-> {},
                     entries |-> <<Entry("c1", "collection")>>,
                     coll |-> [name \in {"c1"} |->
                                 [SampleCollection(name) EXCEPT !.shardKey =
                                     DocD(<<E("a", 1), E("b", 1)>>)]]]]]

InitSnapshot ==
    /\ cluster = SnapshotCluster
    /\ Fresh
    /\ files = NoFiles
    /\ target = {}
    /\ diskFull = FALSE
    /\ collection = NewCollection
    /\ list = <<>>
    /\ ret = "none"

\* the indexes of d1.c1
OptionCatalog == cluster.db["d1"].coll["c1"].indexes

\* an operator creates an index with options on d1.c1
CreateOptionIndex(variant) ==
    /\ method.name = "NewIndexStats"
    /\ files = NoFiles
    /\ Len(OptionCatalog) - 1 < MaxOptIndexes
    /\ Len(OptionCatalog) <= Len(NamePool)
    /\ cluster' = [cluster EXCEPT !.db["d1"].coll["c1"].indexes =
           Append(@, OptionIndex(NamePool[Len(OptionCatalog)], OptionKey(variant), variant))]
    /\ UNCHANGED <<ix, err, calls, method, files, target, origin, diskFull, logged,
                   collVars>>

\* a new process: NewIndexStats makes the receiver
RunNewIndexStats ==
    /\ method.name # "NewIndexStats"
    /\ ix' = NewIndexStats
    /\ err' = "none"
    /\ calls' = <<>>
    /\ method' = Method("NewIndexStats", <<>>)
    /\ origin' = "new"
    /\ logged' = <<>>
    /\ UNCHANGED <<cluster, files, target, diskFull, collVars>>

\* ix.OutputBSON(): gox.OutputGzipped writes the file and the name is
\* printed, or its error is returned
RunOutputBSON ==
    /\ files' = IF diskFull THEN files ELSE OutputBSON(ix, files)
    /\ err' = IF diskFull THEN "write" ELSE "nil"
    /\ calls' = <<[op |-> "write", path |-> OutDir \o ix.filename]>>
    /\ logged' = IF diskFull THEN <<>>
                  ELSE <<Line("Index stats is written to", "", "", OutDir \o ix.filename)>>
    /\ method' = Method("OutputBSON", <<>>)
    /\ UNCHANGED <<cluster, ix, target, origin, diskFull, collVars>>

\* the file names given to SetClusterDetailsFromFile: the file OutputBSON
\* writes, the same name with ".txt" after it, and a legacy stats file that
\* does not exist
LoadNames ==
    { SnapshotPath,
      SnapshotPath \o <<46, 116, 120, 116>>,
      <<104>> \o StatsSuffix }

\* ix.SetClusterDetailsFromFile(filename)
RunSetClusterDetailsFromFile(filename) ==
    /\ LET r == SetClusterDetailsFromFile(ix, files, filename)
       IN /\ ix' = r.ix
          /\ err' = r.err
          /\ calls' = r.calls
          /\ origin' = IF r.err = "nil" THEN "loaded" ELSE origin
    /\ method' = Method("SetClusterDetailsFromFile", filename)
    /\ logged' = <<>>
    /\ UNCHANGED <<cluster, files, target, diskFull, collVars>>

\* ix.CreateIndexes(client) on the target cluster
RunCreateIndexes ==
    /\ LET r == CreateIndexes(ix.Databases, target)
       IN /\ calls' = r.calls
          /\ err' = r.err
          /\ logged' = PrintedErrors(r.calls, 1)
    /\ method' = Method("CreateIndexes", <<>>)
    /\ UNCHANGED <<cluster, ix, files, target, origin, diskFull, collVars>>

NextSnapshot ==
    \/ \E variant \in OptionVariants : CreateOptionIndex(variant)
    \/ RunNewIndexStats
    \/ RunGetIndexes
    \/ RunOutputBSON
    \/ \E filename \in LoadNames : RunSetClusterDetailsFromFile(filename)
    \/ RunCreateIndexes

SpecSnapshot == InitSnapshot /\ [][NextSnapshot]_vars

(***************************************************************************)
(* Properties of the snapshot cycle.                                       *)
(***************************************************************************)
RECURSIVE Flatten(_)
Flatten(seqs) == IF seqs = <<>> THEN <<>> ELSE Head(seqs) \o Flatten(Tail(seqs))

\* the indexes of a snapshot in snapshot order, each with its database and
\* collection
SnapshotOrder(databases) ==
    Flatten([d \in 1..Len(databases) |->
        Flatten([c \in 1..Len(databases[d].Collections) |->
            [i \in 1..Len(databases[d].Collections[c].Indexes) |->
                [db |-> databases[d].Name,
                 coll |-> databases[d].Collections[c].Name,
                 o |-> databases[d].Collections[c].Indexes[i]]]])])

\* the receiver of a new process after it loads the file OutputBSON wrote
Reloaded == SetClusterDetailsFromFile(NewIndexStats, files, OutDir \o ix.filename)

\* OutputBSON has just written the snapshot held by the receiver
Saved == method.name = "OutputBSON"

\* Load(Save(S)) == S: the file just written loads without error into a
\* snapshot equal to the one saved, database by database, field by field
RoundTripEqual ==
    Saved => /\ Reloaded.err = "nil"
             /\ Reloaded.ix.Databases = ix.Databases

\* a snapshot with every optional property set on some index was saved
RoundTripReached ==
    /\ Saved
    /\ origin = "collected"
    /\ \E e \in { SnapshotOrder(ix.Databases)[n] : n \in 1..Len(SnapshotOrder(ix.Databases)) } :
           /\ e.o.Unique /\ e.o.Sparse /\ e.o.Background
           /\ e.o.ExpireAfterSeconds > 0
    /\ \E e \in { SnapshotOrder(ix.Databases)[n] : n \in 1..Len(SnapshotOrder(ix.Databases)) } :
           /\ ~e.o.Collation.isNil
           /\ ~e.o.PartialFilterExpression.isNil

\* the options of an index definition that are flags or numbers, with the
\* field of Index each is decoded into
ScalarOptions == {"background", "unique", "sparse", "expireAfterSeconds"}

StoredOption(o, opt) ==
    CASE opt = "background" -> o.Background
      [] opt = "unique" -> o.Unique
      [] opt = "sparse" -> o.Sparse
      [] OTHER -> o.ExpireAfterSeconds

\* the receiver holds a snapshot loaded from the file
Loaded == method.name = "SetClusterDetailsFromFile" /\ err = "nil"

\* the indexes of the loaded collection d1.c1
LoadedIndexes ==
    LET order == SnapshotOrder(ix.Databases)
    IN { order[n].o : n \in { k \in 1..Len(order) :
                                order[k].db = "d1" /\ order[k].coll = "c1" } }

\* the definition on the live cluster of the index loaded as o
Definition(o) == { OptionCatalog[n] : n \in { k \in 1..Len(OptionCatalog) :
                                                OptionCatalog[k].name = o.Name } }

\* definition r1 leaves option opt unset, r2 gives it as false or zero
UnsetAgainstExplicit(r1, r2, opt) ==
    /\ ~r1[opt].set
    /\ r2[opt].set
    /\ r2[opt].val = (IF opt = "expireAfterSeconds" THEN 0 ELSE FALSE)

\* C7: for every snapshot S, loading the file OutputBSON wrote yields a
\* snapshot equal to S in every field of every index, and an option left unset
\* on an index remains distinguishable, after the round trip, from the same
\* option given explicitly as false or zero on another index.
C7_RoundTripLossless ==
    /\ RoundTripEqual
    /\ Loaded =>
         \A o1, o2 \in LoadedIndexes : \A opt \in ScalarOptions :
             (\E r1 \in Definition(o1) : \E r2 \in Definition(o2) :
                  UnsetAgainstExplicit(r1, r2, opt))
                 => StoredOption(o1, opt) # StoredOption(o2, opt)

\* a file name ending in neither "-index.bson.gz" nor "-stats.bson.gz"
EndsIn(name, suffix) ==
    /\ Len(name) >= Len(suffix)
    /\ \A n \in 1..Len(suffix) : name[Len(name) - Len(suffix) + n] = suffix[n]

WrongSuffix(name) == ~EndsIn(name, IndexSuffix) /\ ~EndsIn(name, StatsSuffix)

\* C8: SetClusterDetailsFromFile called with a file name that ends in neither
\* "-index.bson.gz" nor "-stats.bson.gz" returns "unsupported file type",
\* opens no file, and leaves the snapshot of the receiver and the files as
\* they were.
C8_UnsupportedRejectedEarly ==
    [][(method'.name = "SetClusterDetailsFromFile" /\ WrongSuffix(method'.arg))
          => /\ err' = "unsupported file type"
             /\ calls' = <<>>
             /\ ix' = ix
             /\ files' = files]_vars

\* a ".txt" name whose file name holds the index suffix was refused by a
\* receiver that holds a collected snapshot, with the snapshot file present
C8_Witness ==
    /\ method.name = "SetClusterDetailsFromFile"
    /\ WrongSuffix(method.arg)
    /\ Contains(method.arg, IndexSuffix)
    /\ err = "unsupported file type"
    /\ origin = "collected"
    /\ ix.Databases # <<>>
    /\ files[SnapshotPath] # <<>>

\* the index definitions of collection coll of database db on the live cluster
LiveIndexes(db, coll) ==
    { cluster.db[db].coll[coll].indexes[n] :
        n \in 1..Len(cluster.db[db].coll[coll].indexes) }

\* the options of a creation request
OptionNames ==
    {"version", "name", "background", "expireAfterSeconds", "unique", "sparse",
     "collation", "partialFilterExpression"}

\* request r is the one index o of collection coll of database db calls for
RequestFor(r, db, coll, o) ==
    /\ r.op = "createIndex" /\ r.db = db /\ r.coll = coll
    /\ r.keys = CrossReference(o.Fields, o.Key)
    /\ \E raw \in LiveIndexes(db, coll) : raw.name = o.Name /\ raw.key = r.keys
    /\ DOMAIN r.opts = OptionNames
    /\ r.opts.version = Present(o.Version)
    /\ r.opts.name = Present(o.Name)
    /\ r.opts.background.set = o.Background
    /\ r.opts.background.set => r.opts.background.val = TRUE
    /\ r.opts.expireAfterSeconds.set = (o.ExpireAfterSeconds > 0)
    /\ r.opts.expireAfterSeconds.set
           => r.opts.expireAfterSeconds.val = o.ExpireAfterSeconds
    /\ r.opts.unique.set = o.Unique
    /\ r.opts.unique.set => r.opts.unique.val = TRUE
    /\ r.opts.sparse.set = o.Sparse
    /\ r.opts.sparse.set => r.opts.sparse.val = TRUE
    /\ r.opts.collation.set = ~o.Collation.isNil
    /\ r.opts.partialFilterExpression.set = ~o.PartialFilterExpression.isNil
    /\ r.opts.partialFilterExpression.set
           => r.opts.partialFilterExpression.val = o.PartialFilterExpression.elems

\* CreateIndexes has just run on a snapshot
Replayed == method.name = "CreateIndexes"

\* C10: for every index of the snapshot, the request CreateIndexes issues
\* carries the key obtained from Fields cross-referenced against Key, in the
\* field order and with the directions of the index on the live cluster, always
\* the version and the name, background, unique and sparse iff true, the TTL
\* iff positive, the collation and the partial filter iff present, and no
\* other option.
C10_RequestCarriesKeyAndOptions ==
    Replayed =>
        LET order == SnapshotOrder(ix.Databases)
        IN /\ Len(calls) = Len(order)
           /\ \A n \in 1..Len(order) :
                  RequestFor(calls[n], order[n].db, order[n].coll, order[n].o)

\* a loaded snapshot was replayed with a descending key, every flag and a TTL
\* on one index, a collation and a partial filter on another, and an index
\* with none of them
C10_Witness ==
    /\ Replayed
    /\ origin = "loaded"
    /\ \E n \in 1..Len(calls) :
           /\ calls[n].opts.unique.set /\ calls[n].opts.sparse.set
           /\ calls[n].opts.background.set /\ calls[n].opts.expireAfterSeconds.set
    /\ \E n \in 1..Len(calls) :
           /\ \E k \in 1..Len(calls[n].keys) : calls[n].keys[k].Value = -1
           /\ calls[n].opts.collation.set
           /\ calls[n].opts.partialFilterExpression.set
    /\ \E n \in 1..Len(calls) :
           \A opt \in OptionNames \ {"version", "name"} : ~calls[n].opts[opt].set

(***************************************************************************)
(* The replay against a target cluster that refuses some of the indexes.   *)
(***************************************************************************)
MaxRejected == 2

\* d1 holds a view and c1, d2 holds c2, system.js and c1
RecreateCluster ==
    [listDatabasesFails |-> FALSE,
     shardCountFails |-> FALSE,
     shards |-> 2,
     dbNames |-> <<"d2", "config", "d1">>,
     db |-> [d \in {"d1", "d2"} |->
               IF d = "d1"
               THEN DbEnv(<<Entry("v1", "view"), Entry("c1", "collection")>>)
               ELSE DbEnv(<<Entry("c2", "collection"), Entry("system.js", "collection"),
                            Entry("c1", "collection")>>)]]

InitRecreate ==
    /\ cluster = RecreateCluster
    /\ Fresh
    /\ files = NoFiles
    /\ target = {}
    /\ diskFull = FALSE
    /\ collection = NewCollection
    /\ list = <<>>
    /\ ret = "none"

\* the indexes of the inventoried collections of the live cluster
ClusterIndexes ==
    UNION { UNION { { IndexId(d, c, cluster.db[d].coll[c].indexes[n].name) :
                        n \in 1..Len(cluster.db[d].coll[c].indexes) } :
                    c \in Inventoried(d) } :
            d \in UserDbs(cluster.dbNames) }

\* the target cluster becomes unable to create an index: its name is taken,
\* its options are not accepted
RejectIndex(id) ==
    /\ method.name = "NewIndexStats"
    /\ id \notin target
    /\ Cardinality(target) < MaxRejected
    /\ target' = target \cup {id}
    /\ UNCHANGED <<cluster, ix, err, calls, method, files, origin, diskFull, logged,
                   collVars>>

NextRecreate ==
    \/ \E id \in ClusterIndexes : RejectIndex(id)
    \/ RunNewIndexStats
    \/ RunGetIndexes
    \/ RunOutputBSON
    \/ RunSetClusterDetailsFromFile(SnapshotPath)
    \/ RunCreateIndexes

SpecRecreate == InitRecreate /\ [][NextRecreate]_vars

\* the index each request is for
Requested == [n \in 1..Len(calls) |->
                 IndexId(calls[n].db, calls[n].coll, calls[n].opts.name.val)]

\* the indexes of the snapshot, in snapshot order
Snapshotted ==
    LET order == SnapshotOrder(ix.Databases)
    IN [n \in 1..Len(order) |-> IndexId(order[n].db, order[n].coll, order[n].o.Name)]

\* C9: whatever indexes the target refuses, CreateIndexes issues exactly one
\* creation request for each index of each collection of each database of
\* the snapshot, in snapshot order; a refused creation stops none of the
\* requests after it.
C9_BestEffortReplay ==
    Replayed =>
        /\ \A n \in 1..Len(calls) : calls[n].op = "createIndex"
        /\ Requested = Snapshotted
        /\ \A n \in 1..Len(calls) : calls[n].failed = (Requested[n] \in target)

\* a loaded snapshot was replayed, a creation was refused, and requests
\* followed it in the same collection, in another collection and in another
\* database
C9_Witness ==
    /\ Replayed
    /\ origin = "loaded"
    /\ \E m \in 1..Len(calls) :
           /\ calls[m].failed
           /\ \E n \in (m + 1)..Len(calls) :
                  calls[n].db = calls[m].db /\ calls[n].coll = calls[m].coll
           /\ \E n \in (m + 1)..Len(calls) :
                  calls[n].db = calls[m].db /\ calls[n].coll # calls[m].coll
           /\ \E n \in (m + 1)..Len(calls) :
                  calls[n].db # calls[m].db /\ ~calls[n].failed

(***************************************************************************)
(* The failures the methods do not return, and what they write about them. *)
(***************************************************************************)
MaxFaults == 2

\* a cluster of two shards; d1 holds c1, sharded on { a: 1 }, and c3
AuditCluster ==
    [listDatabasesFails |-> FALSE,
     shardCountFails |-> FALSE,
     shards |-> 2,
     dbNames |-> <<"d1">>,
     db |-> [d \in {"d1"} |->
               [DbEnv(<<Entry("c1", "collection"), Entry("c3", "collection")>>)
                   EXCEPT !.coll["c1"].shardKey = DocD(<<E("a", 1)>>)]]]

InitAudit ==
    /\ cluster = AuditCluster
    /\ Fresh
    /\ files = NoFiles
    /\ target = {}
    /\ diskFull = FALSE
    /\ collection = NewCollection
    /\ list = <<>>
    /\ ret = "none"

\* the collection whose commands fail, with its database
ClusterCollections == { <<"d1", "c1">> }

\* the indexes the target refuses
TargetIndexes == { id \in ClusterIndexes : id.coll = "c1" }

\* the number of failures the cluster, the target and the disk hold
FaultCount ==
    LET Bit(b) == IF b THEN 1 ELSE 0
        OfCollection(coll) ==
            Bit(coll.aggFails) + Bit(coll.lookupFails)
            + Cardinality(coll.badUsage) + Cardinality(coll.badIndexes)
    IN OfCollection(cluster.db["d1"].coll["c1"])
       + Cardinality(cluster.db["d1"].badEntries)
       + Bit(cluster.shardCountFails) + Cardinality(target) + Bit(diskFull)

\* the environment changes before the method of a new receiver runs
MayFail == method.name = "NewIndexStats" /\ FaultCount < MaxFaults

\* usage record n of collection c of database d does not decode
FailUsageDecode(d, c, n) ==
    /\ MayFail
    /\ n \notin cluster.db[d].coll[c].badUsage
    /\ cluster' = [cluster EXCEPT !.db[d].coll[c].badUsage = @ \cup {n}]
    /\ UNCHANGED <<ix, err, calls, method, files, target, origin, diskFull, logged,
                   collVars>>

\* index definition n of collection c of database d does not decode
FailIndexDecode(d, c, n) ==
    /\ MayFail
    /\ n \notin cluster.db[d].coll[c].badIndexes
    /\ cluster' = [cluster EXCEPT !.db[d].coll[c].badIndexes = @ \cup {n}]
    /\ UNCHANGED <<ix, err, calls, method, files, target, origin, diskFull, logged,
                   collVars>>

\* catalog entry n of database d does not decode
FailEntryDecode(d, n) ==
    /\ MayFail
    /\ n \notin cluster.db[d].badEntries
    /\ cluster' = [cluster EXCEPT !.db[d].badEntries = @ \cup {n}]
    /\ UNCHANGED <<ix, err, calls, method, files, target, origin, diskFull, logged,
                   collVars>>

\* the lookups of config.collections for collection c of database d fail
FailShardKeyLookup(d, c) ==
    /\ MayFail
    /\ ~cluster.db[d].coll[c].lookupFails
    /\ cluster' = [cluster EXCEPT !.db[d].coll[c].lookupFails = TRUE]
    /\ UNCHANGED <<ix, err, calls, method, files, target, origin, diskFull, logged,
                   collVars>>

\* the count of config.shards fails
FailShardsCount ==
    /\ MayFail
    /\ ~cluster.shardCountFails
    /\ cluster' = [cluster EXCEPT !.shardCountFails = TRUE]
    /\ UNCHANGED <<ix, err, calls, method, files, target, origin, diskFull, logged,
                   collVars>>

\* the file system stops accepting writes
FailWrite ==
    /\ MayFail
    /\ ~diskFull
    /\ diskFull' = TRUE
    /\ UNCHANGED <<cluster, ix, err, calls, method, files, target, origin, logged,
                   collVars>>

\* ix.OutputJSON(): the result of ioutil.WriteFile is dropped, the name of
\* the file is printed and nil is returned
RunOutputJSON ==
    /\ files' = OutputJSON(ix, files, diskFull)
    /\ err' = "nil"
    /\ calls' = <<[op |-> "write", path |-> JsonPath(ix.filename)]>>
    /\ logged' = <<Line("json data written to", "", "", JsonPath(ix.filename))>>
    /\ method' = Method("OutputJSON", <<>>)
    /\ UNCHANGED <<cluster, ix, target, origin, diskFull, collVars>>

NextAudit ==
    \/ \E dc \in ClusterCollections : MayFail /\ FailAggregate(dc[1], dc[2])
    \/ \E dc \in ClusterCollections : \E n \in 1..3 : FailUsageDecode(dc[1], dc[2], n)
    \/ \E dc \in ClusterCollections : \E n \in 1..3 : FailIndexDecode(dc[1], dc[2], n)
    \/ \E n \in 1..2 : FailEntryDecode("d1", n)
    \/ \E dc \in ClusterCollections : FailShardKeyLookup(dc[1], dc[2])
    \/ FailShardsCount
    \/ \E id \in TargetIndexes : MayFail /\ RejectIndex(id)
    \/ FailWrite
    \/ RunNewIndexStats
    \/ RunGetIndexes
    \/ RunOutputJSON
    \/ RunCreateIndexes

SpecAudit == InitAudit /\ [][NextAudit]_vars

\* the last method sent the command op for collection c of database d
Sent(op, d, c) == \E n \in 1..Len(calls) : calls[n] = Call(op, d, c)

\* a line was written at the place site about item of collection c of database d
Advised(site, d, c, item) ==
    \E n \in 1..Len(logged) :
        /\ logged[n].site = site
        /\ logged[n].db = d /\ logged[n].coll = c
        /\ logged[n].item = item

\* a line was written at the place site
AdvisedAt(site) == \E n \in 1..Len(logged) : logged[n].site = site

\* the failures GetIndexes met in collection c of database d and wrote a line
\* about: the usage query, a usage record or an index definition that does not
\* decode
CollectionFailuresAdvised(d, c) ==
    LET coll == cluster.db[d].coll[c]
    IN /\ coll.aggFails => Advised("aggregate", d, c, <<>>)
       /\ ~coll.aggFails =>
              \A n \in coll.badUsage \cap (1..Len(coll.usage)) :
                  Advised("usage decode", d, c, <<n>>)
       /\ ~coll.listFails =>
              \A n \in coll.badIndexes \cap (1..Len(coll.indexes)) :
                  Advised("index decode", d, c, <<n>>)

\* the failures GetIndexes met in collection c of database d that leave other
\* traces only: the count of the shards, the shard-key lookups
CollectionFailuresSilent(d, c) ==
    LET coll == cluster.db[d].coll[c]
    IN /\ cluster.shardCountFails => AdvisedAt("shards count")
       /\ (/\ ~coll.listFails
           /\ coll.lookupFails
           /\ (1..Len(coll.indexes)) \ coll.badIndexes # {})
              => AdvisedAt("shard key lookup")

\* the collections GetIndexes analysed, each with its database
Analysed ==
    { dc \in UNION { { <<d, c>> : c \in DOMAIN cluster.db[d].coll } :
                     d \in UserDbs(cluster.dbNames) } :
        Sent("aggregate", dc[1], dc[2]) }

\* the catalog entries that did not decode in a ListCollections that answered
EntriesDropped ==
    UNION { { <<d, n>> : n \in cluster.db[d].badEntries
                              \cap (1..Len(cluster.db[d].entries)) } :
            d \in { x \in UserDbs(cluster.dbNames) :
                      /\ Sent("listCollections", x, "")
                      /\ ~cluster.db[x].listCollectionsFails } }

\* the failures that are written about: every one of them met by the last
\* method has its line
LoggedFailuresAdvised ==
    /\ method.name = "GetIndexes" =>
           \A dc \in Analysed : CollectionFailuresAdvised(dc[1], dc[2])
    /\ method.name = "CreateIndexes" =>
           \A n \in 1..Len(calls) :
               calls[n].failed => Advised("createIndex", calls[n].db, calls[n].coll, <<n>>)

\* C11: every failure a method meets and does not return (usage query or
\* usage record decode, catalog entry decode, index definition decode,
\* shard-key lookup, shard count, index creation, JSON export write) has a line
\* written about it.
C11_SwallowedFailuresLogged ==
    /\ LoggedFailuresAdvised
    /\ method.name = "GetIndexes" =>
           /\ \A dc \in Analysed : CollectionFailuresSilent(dc[1], dc[2])
           /\ EntriesDropped # {} => AdvisedAt("entry decode")
    /\ (method.name = "OutputJSON" /\ diskFull) => AdvisedAt("json write")

(***************************************************************************)
(* More properties of the analysis of one collection.                      *)
(***************************************************************************)
\* IsDupped of list[j] at the moment the loop examines list[i]: the loop has
\* written the flags of the positions before i only
FlaggedWhen(j, i) == j < i /\ list[j].IsDupped

\* C12: an index D that is neither the _id index nor a shard key ends flagged
\* if and only if, at the moment the sorted pass examines D, the list holds
\* an unflagged index O with the leading field of D, another KeyString, at
\* least as many fields, and every trailing field of D among its trailing
\* fields; an index alone with its leading field is never flagged, and
\* {a:1,c:1} is flagged when {a:1,b:1,c:1} exists.
C12_FlaggedIffCoveredAtTheMoment ==
    Returned =>
        /\ \A i \in Positions :
               ~(IsIdIndex(list[i]) \/ list[i].IsShardKey) =>
                   (list[i].IsDupped <=>
                       \E j \in Positions :
                           /\ ~FlaggedWhen(j, i)
                           /\ list[j].Fields[1] = list[i].Fields[1]
                           /\ list[j].KeyString # list[i].KeyString
                           /\ Len(list[j].Fields) >= Len(list[i].Fields)
                           /\ \A k \in 2..Len(list[i].Fields) :
                                  \E m \in 2..Len(list[j].Fields) :
                                      list[j].Fields[m] = list[i].Fields[k])
        /\ \A i \in Positions :
               (\A j \in Positions \ {i} : list[j].Fields[1] # list[i].Fields[1])
                   => ~list[i].IsDupped
        /\ \A i, j \in Positions :
               ( /\ list[i].Fields = <<"a", "c">>
                 /\ list[j].Fields = <<"a", "b", "c">>
                 /\ ~list[i].IsShardKey )
               => list[i].IsDupped

\* {a:1,c:1} was flagged next to {a:1,b:1,c:1}, and an index stays unflagged
\* although an index examined before it covers it, that one being flagged
C12_Witness ==
    /\ Returned
    /\ \E i, j \in Positions :
           /\ list[i].Fields = <<"a", "c">>
           /\ list[j].Fields = <<"a", "b", "c">>
           /\ list[i].IsDupped
    /\ \E u \in Positions : \E w \in 1..(u - 1) :
           /\ ~list[u].IsDupped
           /\ ~IsIdIndex(list[u]) /\ ~list[u].IsShardKey
           /\ list[w].IsDupped
           /\ list[w].KeyString # list[u].KeyString
           /\ Covers(list[w], list[u])

\* The catalog of the collection listed in the order p
Relisted(coll, p) ==
    [coll EXCEPT !.indexes = [n \in 1..Len(coll.indexes) |-> coll.indexes[p[n]]]]

\* The orders in which a catalog of n indexes can be listed
Listings(n) ==
    { p \in [1..n -> 1..n] : \A a, b \in 1..n : p[a] = p[b] => a = b }

\* The order of a result and the indexes it flags
Verdict(l) == [n \in 1..Len(l) |-> <<l[n].Name, l[n].IsDupped>>]

\* C13: the order of the result and the set of flagged indexes are the same
\* whatever the order in which the catalog lists the indexes, indexes with
\* an equal EffectiveKey such as {a:1,b:1} and {a:1,b:-1} included.
C13_Reproducible ==
    Returned =>
        \A p \in Listings(Len(collection.indexes)) :
            \A r \in GetIndexesFromCollection(Relisted(collection, p)) :
                Verdict(r.list) = Verdict(list)

\* C16: among the indexes left unflagged no redundancy remains: no unflagged
\* index other than the _id index and the shard key is covered by another
\* unflagged index of a different KeyString.
C16_NoRedundantSurvivors ==
    Returned =>
        ~ \E i, j \in Positions :
              /\ i # j
              /\ ~list[i].IsDupped /\ ~list[j].IsDupped
              /\ ~IsIdIndex(list[i]) /\ ~list[i].IsShardKey
              /\ list[i].KeyString # list[j].KeyString
              /\ Covers(list[j], list[i])

\* An index was flagged, and two indexes that share their leading field
\* are left unflagged, neither covering the other
C16_Witness ==
    /\ Returned
    /\ \E i \in Positions : list[i].IsDupped
    /\ \E j, k \in Positions :
           /\ j # k
           /\ ~list[j].IsDupped /\ ~list[k].IsDupped
           /\ ~IsIdIndex(list[j]) /\ ~list[j].IsShardKey
           /\ ~IsIdIndex(list[k]) /\ ~list[k].IsShardKey
           /\ list[j].Fields[1] = list[k].Fields[1]
           /\ list[j].KeyString # list[k].KeyString

(***************************************************************************)
(* More properties of the inventory and of the replay.                     *)
(***************************************************************************)
\* The records of u that carry the name of an index, in the order of u
Matching(u, name) == SelectSeq(u, LAMBDA r : r.Name = name)

\* The operations of the first n records of u
RECURSIVE Total(_, _)
Total(u, n) == IF n = 0 THEN 0 ELSE u[n].Accesses.Ops + Total(u, n - 1)

\* C14: the Usage of every inventoried index is exactly the records of the
\* usage query that carry its Name, in the order the query returned them, and
\* its TotalOps is the sum of their operation counts, 0 when there is none.
C14_UsageMerged ==
    Collected =>
        \A i \in 1..Len(ix.Databases) :
            \A j \in 1..Len(ix.Databases[i].Collections) :
                LET D == ix.Databases[i]
                    C == D.Collections[j]
                    got == IndexStatsOf(cluster.db[D.Name].coll[C.Name])
                IN \A n \in 1..Len(C.Indexes) :
                       LET m == Matching(got, C.Indexes[n].Name)
                       IN /\ C.Indexes[n].Usage = m
                          /\ C.Indexes[n].TotalOps = Total(m, Len(m))
                          /\ m = <<>> => C.Indexes[n].TotalOps = 0

\* In one collection whose usage query answered, an index carries two
\* records, 3 and 4 operations in that order and 7 in total, and another
\* index carries none
C14_Witness ==
    /\ Collected
    /\ \E i \in 1..Len(ix.Databases) :
           \E j \in 1..Len(ix.Databases[i].Collections) :
               LET C == ix.Databases[i].Collections[j]
               IN /\ ~cluster.db[ix.Databases[i].Name].coll[C.Name].aggFails
                  /\ \E n \in 1..Len(C.Indexes) :
                         /\ Len(C.Indexes[n].Usage) = 2
                         /\ C.Indexes[n].Usage[1].Accesses.Ops = 3
                         /\ C.Indexes[n].Usage[2].Accesses.Ops = 4
                         /\ C.Indexes[n].TotalOps = 7
                  /\ \E n \in 1..Len(C.Indexes) :
                         C.Indexes[n].Usage = <<>> /\ C.Indexes[n].TotalOps = 0

\* C15: CreateIndexes returns the outcome of the last creation request only:
\* nil when the last request succeeded, whatever failed before it, the error
\* when the last request failed, and nil when the snapshot holds no index.
C15_LastAttemptOnly ==
    Replayed =>
        /\ calls = <<>> => err = "nil"
        /\ calls # <<>> =>
               /\ calls[Len(calls)].failed => err = "createIndex"
               /\ ~calls[Len(calls)].failed => err = "nil"
        /\ SnapshotOrder(ix.Databases) = <<>> => (calls = <<>> /\ err = "nil")

\* A creation was refused, the last one was accepted, and nil was returned
C15_Witness ==
    /\ Replayed
    /\ calls # <<>>
    /\ \E m \in 1..(Len(calls) - 1) : calls[m].failed
    /\ ~calls[Len(calls)].failed
    /\ err = "nil"

=============================================================================
